---- MODULE Spec2Model ----
(***************************************************************************)
(* State-machine model of src/Triton/flash_attention_triton.py: the four   *)
(* Triton kernels (forward, backward preprocess, backward dQ, backward     *)
(* dK/dV) and the autograd dispatcher FlashAttentionV2.forward/backward.   *)
(*                                                                         *)
(* Numbers.  A tensor element is an extended rational <<n, d>>: d > 0 is   *)
(* the finite value n/d in lowest terms, <<1,0>> is +inf, <<-1,0>> is -inf *)
(* and <<0,0>> is NaN, with IEEE-754 rules for the special values.         *)
(* Rounding is not modelled (arithmetic on finite values is exact), and    *)
(* tl.exp is modelled by the base-2 exponential, which is exact on the     *)
(* integers and interpolated linearly between them: it keeps exp(-inf)=0,  *)
(* exp(+inf)=+inf, positivity, monotonicity and, on integer arguments,     *)
(* exp(a+b) = exp(a)*exp(b).                                               *)
(***************************************************************************)
EXTENDS Integers, Sequences, FiniteSets, TLC

\* ------------------------------------------------------------------ bounds
MaxBatch == 3
MaxHeads == 2
MaxSeq == 3
MaxDim == 3
MaxBlock == 2
MaxTasks == 3
MaxElems == 12
MaxSeed == 1
MaxGap == 1
MaxAnyElems == 6
MaxAnyTasks == 2
MaxHeadDim == 17
MaxDispSeq == 5
MaxDispBlock == 4

\* ------------------------------------------------------ extended rationals
PInf == <<1, 0>>
NInf == <<-1, 0>>
NaN == <<0, 0>>
Zero == <<0, 1>>
One == <<1, 1>>

Abs(n) == IF n < 0 THEN -n ELSE n
Sgn(n) == IF n < 0 THEN -1 ELSE IF n > 0 THEN 1 ELSE 0

RECURSIVE GCD(_, _)
GCD(a, b) == IF b = 0 THEN a ELSE GCD(b, a % b)

\* n/d with d > 0, in lowest terms
Rat(n, d) == LET g == GCD(Abs(n), d) IN <<n \div g, d \div g>>
Int2X(n) == <<n, 1>>

IsNaN(x) == x = NaN
IsFin(x) == x[2] > 0
IsInf(x) == x = PInf \/ x = NInf

XNeg(x) == <<-x[1], x[2]>>

XAdd(x, y) ==
    IF IsNaN(x) \/ IsNaN(y) THEN NaN
    ELSE IF IsFin(x) /\ IsFin(y) THEN Rat(x[1] * y[2] + y[1] * x[2], x[2] * y[2])
    ELSE IF IsFin(x) THEN y
    ELSE IF IsFin(y) THEN x
    ELSE IF x = y THEN x ELSE NaN

XSub(x, y) == XAdd(x, XNeg(y))

XMul(x, y) ==
    IF IsNaN(x) \/ IsNaN(y) THEN NaN
    ELSE IF IsFin(x) /\ IsFin(y) THEN Rat(x[1] * y[1], x[2] * y[2])
    ELSE LET s == Sgn(x[1]) * Sgn(y[1]) IN IF s = 0 THEN NaN ELSE <<s, 0>>

XDiv(x, y) ==
    IF IsNaN(x) \/ IsNaN(y) THEN NaN
    ELSE IF IsInf(y) THEN (IF IsInf(x) THEN NaN ELSE Zero)
    ELSE IF y[1] = 0 THEN (IF x[1] = 0 THEN NaN ELSE <<Sgn(x[1]), 0>>)
    ELSE IF IsInf(x) THEN <<Sgn(x[1]) * Sgn(y[1]), 0>>
    ELSE Rat(x[1] * y[2] * Sgn(y[1]), x[2] * Abs(y[1]))

\* x <= y on non-NaN values
XLeq(x, y) ==
    IF x = NInf \/ y = PInf THEN TRUE
    ELSE IF x = PInf \/ y = NInf THEN FALSE
    ELSE x[1] * y[2] <= y[1] * x[2]

XMax(x, y) ==
    IF IsNaN(x) \/ IsNaN(y) THEN NaN
    ELSE IF XLeq(x, y) THEN y ELSE x

RECURSIVE Pow2(_)
Pow2(n) == IF n = 0 THEN 1 ELSE 2 * Pow2(n - 1)

\* tl.exp: 2^x on the integers, linear in between
XExp(x) ==
    IF IsNaN(x) THEN NaN
    ELSE IF x = PInf THEN PInf
    ELSE IF x = NInf THEN Zero
    ELSE LET fl == x[1] \div x[2]
             fr == Rat(x[1] - fl * x[2] + x[2], x[2])
             base == IF fl >= 0 THEN <<Pow2(fl), 1>> ELSE <<1, Pow2(-fl)>>
         IN  XMul(base, fr)

\* f as an explicit table: the same function, evaluated once
Vec(f) == f @@ <<>>

RECURSIVE XSumTo(_, _)
\* f[0] + ... + f[n-1]: tl.sum along an axis / the reduction inside tl.dot
XSumTo(f, n) == IF n = 0 THEN Zero ELSE XAdd(XSumTo(f, n - 1), f[n - 1])

RECURSIVE XMaxTo(_, _)
\* tl.max along an axis of n >= 1 elements
XMaxTo(f, n) == IF n = 1 THEN f[0] ELSE XMax(XMaxTo(f, n - 1), f[n - 1])

\* ------------------------------------------------------------------ state
VARIABLES
    pc,      \* dispatcher position
    dims,    \* q.shape: [B, H, S, D]
    kvdims,  \* k.shape = v.shape: [B, H, S, D] (may disagree with q.shape)
    block_size, causal, scale,
    seed,    \* selects the input tensors
    cut,     \* the second input (k2, v2) differs from (k, v) at positions > cut
    gap,     \* allocator padding between o's storage and the m buffer
    junk,    \* content of memory returned by torch.empty
    q, k, v, \* input tensors, flat storage
    k2, v2,  \* key/value of the second run compared with the first
    heap,    \* memory from o_ptr on: o's storage, padding, the m and l tensors
    heap2,   \* the same memory in the second run (same schedule, inputs k2, v2)
    dout,    \* do: the output gradient handed to backward, flat storage
    dbuf,    \* d tensor of backward
    dq, dk, dv,
    block_k, \* BLOCK_SIZE_K computed by the dispatcher
    grid,    \* grid of the kernel being run
    ran      \* per kernel, the programs (program ids) that have completed

vars == <<pc, dims, kvdims, block_size, causal, scale, seed, cut, gap, junk,
          q, k, v, k2, v2, heap, heap2, dout, dbuf, dq, dk, dv, block_k, grid,
          ran>>

\* ------------------------------------------------------ shapes and strides
Numel(sh) == sh.B * sh.H * sh.S * sh.D

\* strides of a contiguous tensor of shape sh: x.stride(0..3)
Stride(sh) == [b |-> sh.H * sh.S * sh.D, h |-> sh.S * sh.D, s |-> sh.D, f |-> 1]

Offset(st, b, h, i, f) == b * st.b + h * st.h + i * st.s + f * st.f

\* a floor division in place of triton.cdiv
CDivFloor(x, y) == x \div y

\* triton.cdiv
CDiv(x, y) == (x + y - 1) \div y

RECURSIVE RoundUpLoop(_, _)
\* while block_k < head_dim: block_k *= 2
RoundUpLoop(bk, head_dim) == IF bk < head_dim THEN RoundUpLoop(bk * 2, head_dim) ELSE bk

RECURSIVE BitAnd(_, _)
\* x & y on non-negative integers
BitAnd(x, y) ==
    IF x = 0 \/ y = 0 THEN 0
    ELSE (x % 2) * (y % 2) + 2 * BitAnd(x \div 2, y \div 2)

\* block_k = head_dim; if block_k & (block_k - 1) != 0: block_k = 1; while ...
BlockK(head_dim) ==
    IF BitAnd(head_dim, head_dim - 1) # 0 THEN RoundUpLoop(1, head_dim) ELSE head_dim

\* grid = (batch_size, num_heads, triton.cdiv(seq_len, block_size))
Grid(sh, bs) == <<sh.B, sh.H, CDiv(sh.S, bs)>>

\* the program ids of a launch over grid g
Tasks(g) == (0 .. g[1] - 1) \X (0 .. g[2] - 1) \X (0 .. g[3] - 1)

\* ------------------------------------------------------------------ memory
\* torch.empty / torch.zeros of n elements
Alloc(n, val) == [a \in 0 .. n - 1 |-> val]

\* tl.load with mask and other: an address outside the allocation reads
\* whatever lies there (junk)
Load(buf, a, mask, other) ==
    IF ~mask THEN other
    ELSE IF a \in DOMAIN buf THEN buf[a] ELSE junk

\* tl.store of the writes w (address -> value); a store outside the modelled
\* memory does not change it
Store(buf, w) == [a \in DOMAIN buf |-> IF a \in DOMAIN w THEN w[a] ELSE buf[a]]

\* where the allocator placed the tensors m and l of FlashAttentionV2.forward,
\* as offsets from o_ptr
MBase == Numel(dims) + gap
LBase == MBase + dims.B * dims.H * dims.S
HeapSize == LBase + dims.B * dims.H * dims.S

\* ---------------------------------------------------------- forward kernel
\* q_block: tl.load of Query row ri, feature f (lines 58-64)
QLoad(b, h, ri, f) ==
    Load(q, Offset(Stride(dims), b, h, ri, f), ri < dims.S /\ f < dims.D, Zero)

\* k_block / v_block: tl.load of row j, feature f of a key or value tensor T,
\* addressed with that tensor's own strides (lines 75-81, 99-105)
KVLoad(T, b, h, j, f) ==
    Load(T, Offset(Stride(kvdims), b, h, j, f), j < dims.S /\ f < dims.D, Zero)

\* scores with a strict causal mask, row_indices > col_indices: the diagonal
\* is masked too
ScoreStrict(K, b, h, ri, j) ==
    LET raw == XMul(XSumTo([f \in 0 .. block_k - 1 |->
                              XMul(QLoad(b, h, ri, f), KVLoad(K, b, h, j, f))],
                           block_k), scale)
    IN  IF causal /\ ~(ri > j) THEN NInf ELSE raw

\* one element of scores = tl.dot(q_block, tl.trans(k_block)) * scale, after
\* the causal tl.where (lines 83-86)
Score(K, b, h, ri, j) ==
    LET raw == XMul(XSumTo([f \in 0 .. block_k - 1 |->
                              XMul(QLoad(b, h, ri, f), KVLoad(K, b, h, j, f))],
                           block_k), scale)
    IN  IF causal /\ ~(ri >= j) THEN NInf ELSE raw

\* m_i, l_i, acc of one row before the loop (lines 49-51)
FwdInit == [m |-> NInf, l |-> Zero, acc |-> [f \in 0 .. block_k - 1 |-> Zero]]

\* one iteration of the loop over key tiles, for row ri (lines 68-115)
FwdStep(st, K, V, b, h, ri, start_n) ==
    LET N == block_size
        scores == Vec([c \in 0 .. N - 1 |-> Score(K, b, h, ri, start_n + c)])
        m_i_new == XMax(st.m, XMaxTo(scores, N))
        alpha == XExp(XSub(st.m, m_i_new))
        p == Vec([c \in 0 .. N - 1 |-> XExp(XSub(scores[c], m_i_new))])
        l_i_new == XAdd(XMul(alpha, st.l), XSumTo(p, N))
        acc_new == Vec([f \in 0 .. block_k - 1 |->
                      XAdd(XMul(alpha, st.acc[f]),
                           XSumTo([c \in 0 .. N - 1 |->
                                     XMul(p[c], KVLoad(V, b, h, start_n + c, f))], N))])
    IN  [m |-> m_i_new, l |-> l_i_new, acc |-> acc_new]

RECURSIVE FwdLoop(_, _, _, _, _, _, _)
\* for start_n in range(0, seq_len, BLOCK_SIZE_N) (line 67)
FwdLoop(st, K, V, b, h, ri, start_n) ==
    IF start_n >= dims.S THEN st
    ELSE FwdLoop(FwdStep(st, K, V, b, h, ri, start_n), K, V, b, h, ri,
                 start_n + block_size)

\* the registers of row ri after the loop, and out = acc / l_i (line 133)
FwdRow(K, V, b, h, ri) ==
    LET st == FwdLoop(FwdInit, K, V, b, h, ri, 0)
    IN  [m |-> st.m, l |-> st.l,
         out |-> Vec([f \in 0 .. block_k - 1 |-> XDiv(st.acc[f], st.l)])]

\* m_ptr and l_ptr as the kernel derives them from o_ptr (lines 117-118)
MPtr == dims.S * dims.D * dims.H * dims.D
LPtr == MPtr + dims.S * dims.D * dims.H

\* offset of row ri in a [batch, heads, seq] statistics tensor (lines 121, 127)
StatOffset(b, h, ri) == b * (dims.H * dims.S) + h * dims.S + ri

\* row indices of program m_id (lines 37, 54)
RowIndices(m_id) == {m_id * block_size + r : r \in 0 .. block_size - 1}

\* the registers of every row of program (b, h, m_id) when it reaches its stores
FwdTile(K, V, b, h, m_id) ==
    Vec([ri \in RowIndices(m_id) |-> FwdRow(K, V, b, h, ri)])

\* a store mask of row_mask alone: every lane of tl.arange(0, BLOCK_SIZE_K)
TileElemsRowMaskOnly(rows) ==
    {rf \in rows \X (0 .. block_k - 1) : rf[1] < dims.S}

\* the elements of a [seq, feature] tile that a masked 2-d store or load touches
TileElems(rows) ==
    {rf \in rows \X (0 .. block_k - 1) : rf[1] < dims.S /\ rf[2] < dims.D}

\* the three tl.store of one forward program (lines 120-142); tile holds the
\* rows' registers
FwdStoreM(tile, b, h, m_id) ==
    LET rows == {ri \in RowIndices(m_id) : ri < dims.S}
    IN  [a \in {MPtr + StatOffset(b, h, ri) : ri \in rows} |->
           tile[a - MPtr - StatOffset(b, h, 0)].m]

FwdStoreL(tile, b, h, m_id) ==
    LET rows == {ri \in RowIndices(m_id) : ri < dims.S}
    IN  [a \in {LPtr + StatOffset(b, h, ri) : ri \in rows} |->
           tile[a - LPtr - StatOffset(b, h, 0)].l]

FwdStoreO(tile, b, h, m_id) ==
    LET el == TileElems(RowIndices(m_id))
        st == Stride(dims)
    IN  [a \in {Offset(st, b, h, rf[1], rf[2]) : rf \in el} |->
           LET rf == CHOOSE x \in el : Offset(st, b, h, x[1], x[2]) = a
           IN  tile[rf[1]].out[rf[2]]]

\* the stores in program order: M, L, then Output
FwdProgram(mem, K, V, b, h, m_id) ==
    LET tile == FwdTile(K, V, b, h, m_id)
    IN  Store(Store(Store(mem, FwdStoreM(tile, b, h, m_id)),
                    FwdStoreL(tile, b, h, m_id)),
              FwdStoreO(tile, b, h, m_id))

\* the addresses one forward program stores to
FwdWrites(b, h, m_id) ==
    LET tile == FwdTile(k, v, b, h, m_id)
    IN  DOMAIN FwdStoreM(tile, b, h, m_id) \cup DOMAIN FwdStoreL(tile, b, h, m_id)
            \cup DOMAIN FwdStoreO(tile, b, h, m_id)

\* ------------------------------------------------------------------ inputs
\* the call's shapes and tile size; the caps keep the task count finite
Shapes ==
    {sh \in [B : 1 .. MaxBatch, H : 1 .. MaxHeads, S : 1 .. MaxSeq, D : 1 .. MaxDim] :
        Numel(sh) <= MaxElems}

BlockSizes(sh) ==
    {bs \in 1 .. MaxBlock : sh.B * sh.H * CDiv(sh.S, bs) <= MaxTasks}

\* shapes a caller may hand in for k and v: q's, or one longer in one dimension
KVShapes(sh) ==
    {sh, [sh EXCEPT !.S = sh.S + 1], [sh EXCEPT !.D = sh.D + 1]}

\* element (b, h, i, f) of a contiguous tensor of shape sh from its address
Index(sh, a) ==
    [b |-> a \div (sh.H * sh.S * sh.D), h |-> (a \div (sh.S * sh.D)) % sh.H,
     i |-> (a \div sh.D) % sh.S, f |-> a % sh.D]

QInput(sh, sd) ==
    [a \in 0 .. Numel(sh) - 1 |->
        LET x == Index(sh, a) IN Int2X(1 + ((x.i + x.f + sd) % 2))]
KInput(sh, sd) ==
    [a \in 0 .. Numel(sh) - 1 |->
        LET x == Index(sh, a) IN Int2X((x.i + x.f + x.b + sd) % 2)]
VInput(sh, sd) ==
    [a \in 0 .. Numel(sh) - 1 |->
        LET x == Index(sh, a) IN Int2X(1 + x.i + ((x.f + x.h + sd) % 2))]
DOInput(sh, sd) ==
    [a \in 0 .. Numel(sh) - 1 |->
        LET x == Index(sh, a) IN Int2X(1 + ((x.b + x.i + x.f + sd) % 2))]

\* T with one added to every element at a sequence position > c
Perturb(T, sh, c) ==
    [a \in DOMAIN T |-> IF Index(sh, a).i > c THEN XAdd(T[a], One) ELSE T[a]]

Kernels == {"fwd", "pre", "dq", "dkv"}
NoneRan == [kn \in Kernels |-> {}]

Init ==
    /\ pc = "init"
    /\ dims \in Shapes
    /\ kvdims \in KVShapes(dims)
    /\ block_size \in BlockSizes(dims)
    /\ causal \in BOOLEAN
    /\ scale = One
    /\ seed \in 0 .. MaxSeed
    /\ cut \in 0 .. (IF dims.S >= 2 THEN dims.S - 2 ELSE 0)
    /\ gap \in 0 .. MaxGap
    /\ junk = Int2X(seed)
    /\ q = QInput(dims, seed)
    /\ k = KInput(kvdims, seed)
    /\ v = VInput(kvdims, seed)
    /\ k2 = Perturb(k, kvdims, cut)
    /\ v2 = Perturb(v, kvdims, cut)
    /\ heap = Alloc(0, Zero)
    /\ heap2 = Alloc(0, Zero)
    /\ dout = Alloc(0, Zero)
    /\ dbuf = Alloc(0, Zero)
    /\ dq = Alloc(0, Zero)
    /\ dk = Alloc(0, Zero)
    /\ dv = Alloc(0, Zero)
    /\ block_k = 0
    /\ grid = <<0, 0, 0>>
    /\ ran = NoneRan

inputs == <<dims, kvdims, block_size, causal, scale, seed, cut, gap, junk,
            q, k, v, k2, v2>>

\* ------------------------------------------------- backward: preprocess
\* d_block of row ri: tl.sum(o_block * do_block, axis=1) over
\* tl.arange(0, head_dim) (lines 171-187); o is read at o_ptr, do is contiguous
PreRow(b, h, ri, seq_len, head_dim) ==
    LET a(f) == Offset(Stride(dims), b, h, ri, f)
        mask(f) == ri < seq_len /\ f < head_dim
    IN  XSumTo([f \in 0 .. head_dim - 1 |->
                  XMul(Load(heap, a(f), mask(f), Zero),
                       Load(dout, a(f), mask(f), Zero))], head_dim)

\* the tl.store of one preprocess program (lines 160-162, 189-191)
PreStore(b, h, block_id, seq_len, num_heads, head_dim) ==
    LET rows == {ri \in RowIndices(block_id) : ri < seq_len}
        d_offset == b * (num_heads * seq_len) + h * seq_len
    IN  [a \in {d_offset + ri : ri \in rows} |->
           PreRow(b, h, a - d_offset, seq_len, head_dim)]

\* the kernel's parameters (batch_size, seq_len, num_heads, head_dim) as the
\* dispatcher binds them: it passes batch_size, num_heads, seq_len, head_dim
\* in that order (line 550)
PreArgs == [seq_len |-> dims.H, num_heads |-> dims.S, head_dim |-> dims.D]

PreWrites(b, h, block_id) ==
    DOMAIN PreStore(b, h, block_id, PreArgs.seq_len, PreArgs.num_heads,
                    PreArgs.head_dim)

\* --------------------------------------------------------- backward: dQ
\* m_i, d_i of row ri as the backward kernels load them from the tensors m
\* and d (lines 232-247, 418-428)
MLoad(b, h, ri) == Load(heap, MBase + StatOffset(b, h, ri), ri < dims.S, NInf)
DLoad(b, h, ri) == Load(dbuf, StatOffset(b, h, ri), ri < dims.S, Zero)

\* do_block: row ri, feature f of the output gradient (lines 259-265, 410-416)
DOLoad(b, h, ri, f) ==
    Load(dout, Offset(Stride(dims), b, h, ri, f), ri < dims.S /\ f < dims.D, Zero)

\* p = tl.exp(scores - m_i[:, None]) in the dQ kernel (lines 297-303)
BwdP(b, h, ri, j) == XExp(XSub(Score(k, b, h, ri, j), MLoad(b, h, ri)))

\* one iteration of the loop over key tiles for row ri (lines 272-315)
DqStep(acc, b, h, ri, start_n) ==
    LET N == block_size
        p == Vec([c \in 0 .. N - 1 |-> BwdP(b, h, ri, start_n + c)])
        dp == Vec([c \in 0 .. N - 1 |->
                XSumTo([f \in 0 .. block_k - 1 |->
                          XMul(DOLoad(b, h, ri, f), KVLoad(v, b, h, start_n + c, f))],
                       block_k)])
        ds == Vec([c \in 0 .. N - 1 |-> XMul(p[c], XSub(dp[c], DLoad(b, h, ri)))])
    IN  Vec([f \in 0 .. block_k - 1 |->
               XAdd(acc[f],
                    XMul(XSumTo([c \in 0 .. N - 1 |->
                                   XMul(ds[c], KVLoad(k, b, h, start_n + c, f))], N),
                         scale))])

RECURSIVE DqLoop(_, _, _, _, _)
DqLoop(acc, b, h, ri, start_n) ==
    IF start_n >= dims.S THEN acc
    ELSE DqLoop(DqStep(acc, b, h, ri, start_n), b, h, ri, start_n + block_size)

\* dq_block of row ri when the program reaches its store (lines 268-315)
DqRow(b, h, ri) == DqLoop([f \in 0 .. block_k - 1 |-> Zero], b, h, ri, 0)

\* the tl.store of one dQ program (lines 318-324); dq = torch.zeros_like(q)
DqStore(b, h, m_id) ==
    LET el == TileElems(RowIndices(m_id))
        st == Stride(dims)
        tile == Vec([ri \in RowIndices(m_id) |-> DqRow(b, h, ri)])
    IN  [a \in {Offset(st, b, h, rf[1], rf[2]) : rf \in el} |->
           LET rf == CHOOSE x \in el : Offset(st, b, h, x[1], x[2]) = a
           IN  tile[rf[1]][rf[2]]]

\* ------------------------------------------------------ backward: dK/dV
\* p_t = tl.exp(qk_t - m_i[None, :]) for key cj and query ri (lines 431-438)
BwdPT(b, h, cj, ri) ==
    LET raw == XMul(XSumTo([f \in 0 .. block_k - 1 |->
                              XMul(KVLoad(k, b, h, cj, f), QLoad(b, h, ri, f))],
                           block_k), scale)
        qk_t == IF causal /\ ~(ri >= cj) THEN NInf ELSE raw
    IN  XExp(XSub(qk_t, MLoad(b, h, ri)))

\* one iteration of the loop over query tiles for key cj (lines 396-450)
DkvStep(st, b, h, cj, start_m) ==
    LET M == block_size
        ri(r) == start_m + r
        p_t == Vec([r \in 0 .. M - 1 |-> BwdPT(b, h, cj, ri(r))])
        dp_t == Vec([r \in 0 .. M - 1 |->
                  XSumTo([f \in 0 .. block_k - 1 |->
                            XMul(KVLoad(v, b, h, cj, f), DOLoad(b, h, ri(r), f))],
                         block_k)])
        ds_t == Vec([r \in 0 .. M - 1 |->
                  XMul(p_t[r], XSub(dp_t[r], DLoad(b, h, ri(r))))])
    IN  [dv |-> Vec([f \in 0 .. block_k - 1 |->
                   XAdd(st.dv[f],
                        XSumTo([r \in 0 .. M - 1 |->
                                  XMul(p_t[r], DOLoad(b, h, ri(r), f))], M))]),
         dk |-> Vec([f \in 0 .. block_k - 1 |->
                   XAdd(st.dk[f],
                        XMul(XSumTo([r \in 0 .. M - 1 |->
                                       XMul(ds_t[r], QLoad(b, h, ri(r), f))], M),
                             scale))])]

RECURSIVE DkvLoop(_, _, _, _, _)
DkvLoop(st, b, h, cj, start_m) ==
    IF start_m >= dims.S THEN st
    ELSE DkvLoop(DkvStep(st, b, h, cj, start_m), b, h, cj, start_m + block_size)

\* dk_block, dv_block of key cj when the program reaches its stores
DkvCol(b, h, cj) ==
    DkvLoop([dk |-> [f \in 0 .. block_k - 1 |-> Zero],
             dv |-> [f \in 0 .. block_k - 1 |-> Zero]], b, h, cj, 0)

\* the two tl.store of one dK/dV program (lines 453-467); dk = zeros_like(k),
\* dv = zeros_like(v); which is "dk" or "dv"
DkvStore(b, h, n_id, which) ==
    LET el == TileElems(RowIndices(n_id))
        st == Stride(kvdims)
        tile == Vec([cj \in RowIndices(n_id) |-> DkvCol(b, h, cj)])
    IN  [a \in {Offset(st, b, h, cf[1], cf[2]) : cf \in el} |->
           LET cf == CHOOSE x \in el : Offset(st, b, h, x[1], x[2]) = a
           IN  tile[cf[1]][which][cf[2]]]

\* ---------------------------------------------------- dispatcher: forward
\* FlashAttentionV2.forward up to the kernel launch (lines 471-506): the
\* dimensions are q's; o, m and l are torch.empty; no argument is checked
Forward ==
    /\ pc = "init"
    /\ heap' = Alloc(HeapSize, junk)
    /\ heap2' = Alloc(HeapSize, junk)
    /\ grid' = Grid(dims, block_size)
    /\ block_k' = BlockK(dims.D)
    /\ pc' = "fwd"
    /\ UNCHANGED <<inputs, dout, dbuf, dq, dk, dv, ran>>

\* one program of flash_attn_v2_forward (lines 12-142), on both runs
FwdTask(t) ==
    /\ pc = "fwd"
    /\ t \in Tasks(grid) \ ran.fwd
    /\ heap' = FwdProgram(heap, k, v, t[1], t[2], t[3])
    /\ heap2' = FwdProgram(heap2, k2, v2, t[1], t[2], t[3])
    /\ ran' = [ran EXCEPT !.fwd = @ \cup {t}]
    /\ UNCHANGED <<inputs, pc, dout, dbuf, dq, dk, dv, block_k, grid>>

\* the launch has run; ctx.save_for_backward(q, k, v, o, m, l); return o
\* (lines 508-514)
ForwardReturn ==
    /\ pc = "fwd"
    /\ ran.fwd = Tasks(grid)
    /\ pc' = "ret"
    /\ UNCHANGED <<inputs, heap, heap2, dout, dbuf, dq, dk, dv, block_k, grid, ran>>

\* --------------------------------------------------- dispatcher: backward
\* FlashAttentionV2.backward up to the preprocess launch (lines 517-554)
Backward ==
    /\ pc = "ret"
    /\ dout' = DOInput(dims, seed)
    /\ dq' = Alloc(Numel(dims), Zero)
    /\ dk' = Alloc(Numel(kvdims), Zero)
    /\ dv' = Alloc(Numel(kvdims), Zero)
    /\ dbuf' = Alloc(dims.B * dims.H * dims.S, junk)
    /\ block_k' = BlockK(dims.D)
    /\ grid' = Grid(dims, block_size)
    /\ pc' = "pre"
    /\ UNCHANGED <<inputs, heap, heap2, ran>>

\* one program of flash_attn_v2_backward_preprocess (lines 146-191)
PreTask(t) ==
    /\ pc = "pre"
    /\ t \in Tasks(grid) \ ran.pre
    /\ dbuf' = Store(dbuf, PreStore(t[1], t[2], t[3], PreArgs.seq_len,
                                    PreArgs.num_heads, PreArgs.head_dim))
    /\ ran' = [ran EXCEPT !.pre = @ \cup {t}]
    /\ UNCHANGED <<inputs, pc, heap, heap2, dout, dq, dk, dv, block_k, grid>>

\* the preprocess launch has run; launch of the dQ kernel (lines 556-575):
\* launches on one stream run in the order they are issued
LaunchDq ==
    /\ pc = "pre"
    /\ ran.pre = Tasks(grid)
    /\ grid' = Grid(dims, block_size)
    /\ pc' = "dq"
    /\ UNCHANGED <<inputs, heap, heap2, dout, dbuf, dq, dk, dv, block_k, ran>>

\* what one program of flash_attn_v2_backward_dq does (lines 194-324)
DqProgram(t) ==
    /\ t \in Tasks(grid) \ ran.dq
    /\ dq' = Store(dq, DqStore(t[1], t[2], t[3]))
    /\ ran' = [ran EXCEPT !.dq = @ \cup {t}]
    /\ UNCHANGED <<inputs, pc, heap, heap2, dout, dbuf, dk, dv, block_k, grid>>

DqTask(t) == pc = "dq" /\ DqProgram(t)

\* the dQ launch has run; launch of the dK/dV kernel (lines 577-597)
LaunchDkv ==
    /\ pc = "dq"
    /\ ran.dq = Tasks(grid)
    /\ grid' = Grid(dims, block_size)
    /\ pc' = "dkv"
    /\ UNCHANGED <<inputs, heap, heap2, dout, dbuf, dq, dk, dv, block_k, ran>>

\* the dK/dV program with dk_ptr bound to the tensor dq, as if the dQ launch's
\* argument list had been copied unchanged
DkvProgramIntoDq(t) ==
    /\ t \in Tasks(grid) \ ran.dkv
    /\ dq' = Store(dq, DkvStore(t[1], t[2], t[3], "dk"))
    /\ dv' = Store(dv, DkvStore(t[1], t[2], t[3], "dv"))
    /\ ran' = [ran EXCEPT !.dkv = @ \cup {t}]
    /\ UNCHANGED <<inputs, pc, heap, heap2, dout, dbuf, dk, block_k, grid>>

\* what one program of flash_attn_v2_backward_dkv does (lines 327-467)
DkvProgram(t) ==
    /\ t \in Tasks(grid) \ ran.dkv
    /\ dk' = Store(dk, DkvStore(t[1], t[2], t[3], "dk"))
    /\ dv' = Store(dv, DkvStore(t[1], t[2], t[3], "dv"))
    /\ ran' = [ran EXCEPT !.dkv = @ \cup {t}]
    /\ UNCHANGED <<inputs, pc, heap, heap2, dout, dbuf, dq, block_k, grid>>

DkvTask(t) == pc = "dkv" /\ DkvProgram(t)

\* return dq, dk, dv (lines 599-600)
BackwardReturn ==
    /\ pc = "dkv"
    /\ ran.dkv = Tasks(grid)
    /\ pc' = "done"
    /\ UNCHANGED <<inputs, heap, heap2, dout, dbuf, dq, dk, dv, block_k, grid, ran>>

Next ==
    \/ Forward
    \/ \E t \in Tasks(grid) : FwdTask(t)
    \/ ForwardReturn
    \/ Backward
    \/ \E t \in Tasks(grid) : PreTask(t)
    \/ LaunchDq
    \/ \E t \in Tasks(grid) : DqTask(t)
    \/ LaunchDkv
    \/ \E t \in Tasks(grid) : DkvTask(t)
    \/ BackwardReturn

Spec == Init /\ [][Next]_vars

\* ------------------------------------------ dK/dV launched beside dQ
\* The dispatcher with the order between the dQ and the dK/dV launch left
\* open, as two streams would run them: both launches follow the preprocess
\* launch, and their programs run in any order.
LaunchGrads ==
    /\ pc = "pre"
    /\ ran.pre = Tasks(grid)
    /\ grid' = Grid(dims, block_size)
    /\ pc' = "grads"
    /\ UNCHANGED <<inputs, heap, heap2, dout, dbuf, dq, dk, dv, block_k, ran>>

DqAny(t) == pc = "grads" /\ DqProgram(t)

DkvAny(t) == pc = "grads" /\ DkvProgram(t)

GradsReturn ==
    /\ pc = "grads"
    /\ ran.dq = Tasks(grid)
    /\ ran.dkv = Tasks(grid)
    /\ pc' = "done"
    /\ UNCHANGED <<inputs, heap, heap2, dout, dbuf, dq, dk, dv, block_k, grid, ran>>

NextAnyOrder ==
    \/ Forward
    \/ \E t \in Tasks(grid) : FwdTask(t)
    \/ ForwardReturn
    \/ Backward
    \/ \E t \in Tasks(grid) : PreTask(t)
    \/ LaunchGrads
    \/ \E t \in Tasks(grid) : DqAny(t)
    \/ \E t \in Tasks(grid) : DkvAny(t)
    \/ GradsReturn

\* the layout of m and l, the junk in fresh memory and the second run play no
\* part here; the smaller caps leave room for the interleavings
InitAnyOrder ==
    /\ Init
    /\ gap = 0 /\ seed = 0 /\ cut = 0
    /\ Numel(dims) <= MaxAnyElems
    /\ dims.B * dims.H * CDiv(dims.S, block_size) <= MaxAnyTasks

SpecAnyOrder == InitAnyOrder /\ [][NextAnyOrder]_vars

\* ------------------------------------- the dispatcher's own arithmetic
\* The statements of FlashAttentionV2.forward (lines 483-506) and
\* FlashAttentionV2.backward (lines 537-597) that compute the grid and
\* BLOCK_SIZE_K, one statement per step; pc = <<who, statement>>.
DispShapes ==
    [B : 1 .. MaxBatch, H : 1 .. MaxHeads, S : 1 .. MaxDispSeq, D : 1 .. MaxHeadDim]

InitDispatch ==
    /\ \E who \in {"forward", "backward"} :
          pc = <<who, IF who = "forward" THEN "grid" ELSE "block_k">>
    /\ dims \in DispShapes
    /\ kvdims = dims
    /\ block_size \in 1 .. MaxDispBlock
    /\ causal = FALSE
    /\ scale = One
    /\ seed = 0
    /\ cut = 0
    /\ gap = 0
    /\ junk = Zero
    /\ q = Alloc(0, Zero)
    /\ k = Alloc(0, Zero)
    /\ v = Alloc(0, Zero)
    /\ k2 = Alloc(0, Zero)
    /\ v2 = Alloc(0, Zero)
    /\ heap = Alloc(0, Zero)
    /\ heap2 = Alloc(0, Zero)
    /\ dout = Alloc(0, Zero)
    /\ dbuf = Alloc(0, Zero)
    /\ dq = Alloc(0, Zero)
    /\ dk = Alloc(0, Zero)
    /\ dv = Alloc(0, Zero)
    /\ block_k = 0
    /\ grid = <<0, 0, 0>>
    /\ ran = NoneRan

tensors == <<q, k, v, k2, v2, heap, heap2, dout, dbuf, dq, dk, dv>>
call == <<dims, kvdims, block_size, causal, scale, seed, cut, gap, junk>>

\* grid = (batch_size, num_heads, triton.cdiv(seq_len, block_size)): line 484
\* in forward, before block_k; lines 545, 557, 578 in backward, after it
DispGrid(who) ==
    /\ pc = <<who, "grid">>
    /\ grid' = Grid(dims, block_size)
    /\ pc' = <<who, IF who = "forward" THEN "block_k" ELSE "launch">>
    /\ UNCHANGED <<call, tensors, block_k, ran>>

\* block_k = head_dim (lines 487, 538)
DispBlockK(who) ==
    /\ pc = <<who, "block_k">>
    /\ block_k' = dims.D
    /\ pc' = <<who, "test">>
    /\ UNCHANGED <<call, tensors, grid, ran>>

\* if block_k & (block_k - 1) != 0: block_k = 1 (lines 488-489, 539-540)
DispTest(who) ==
    /\ pc = <<who, "test">>
    /\ IF BitAnd(block_k, block_k - 1) # 0
       THEN block_k' = 1 /\ pc' = <<who, "while">>
       ELSE block_k' = block_k
            /\ pc' = <<who, IF who = "forward" THEN "launch" ELSE "grid">>
    /\ UNCHANGED <<call, tensors, grid, ran>>

\* while block_k < head_dim: block_k *= 2 (lines 490-491, 541-542)
DispWhile(who) ==
    /\ pc = <<who, "while">>
    /\ IF block_k < dims.D
       THEN block_k' = block_k * 2 /\ pc' = pc
       ELSE block_k' = block_k
            /\ pc' = <<who, IF who = "forward" THEN "launch" ELSE "grid">>
    /\ UNCHANGED <<call, tensors, grid, ran>>

\* kernel[grid](..., BLOCK_SIZE_K=block_k): every program of the grid runs;
\* forward launches one kernel (line 494), backward three (548, 560, 581)
DispLaunch(who) ==
    /\ pc = <<who, "launch">>
    /\ ran' = [kn \in Kernels |->
                 IF (kn = "fwd") = (who = "forward") THEN Tasks(grid) ELSE {}]
    /\ pc' = <<who, "launched">>
    /\ UNCHANGED <<call, tensors, block_k, grid>>

NextDispatch ==
    \E who \in {"forward", "backward"} :
        \/ DispGrid(who)
        \/ DispBlockK(who)
        \/ DispTest(who)
        \/ DispWhile(who)
        \/ DispLaunch(who)

\* the dispatcher is straight-line host code: it keeps running
SpecDispatch == InitDispatch /\ [][NextDispatch]_vars /\ WF_vars(NextDispatch)

\* ================================================================ claims
Returned == pc \in {"ret", "pre", "dq", "dkv", "grads", "done"}
ValidRows == (0 .. dims.B - 1) \X (0 .. dims.H - 1) \X (0 .. dims.S - 1)
Features == 0 .. dims.D - 1
\* address of Output[b, h, i, f] from o_ptr
OAddr(b, h, i, f) == Offset(Stride(dims), b, h, i, f)
\* the key positions the loop over key tiles scans: whole tiles
Scanned == 0 .. CDiv(dims.S, block_size) * block_size - 1

\* C1: with causal = true, once forward has returned, Output at every row
\* i <= cut is the same in the two runs, whose inputs agree on Query and on
\* Key/Value at all positions <= cut and differ at every position > cut.
C1_CausalOutputInvariant ==
    (Returned /\ causal) =>
        \A r \in ValidRows : \A f \in Features :
            r[3] <= cut => heap[OAddr(r[1], r[2], r[3], f)] = heap2[OAddr(r[1], r[2], r[3], f)]

\* C2: causal = false and seq_len not divisible by the tile size: for every
\* valid row of a forward program that has run, a key position j >= seq_len of
\* the partial key tile has weight exp(score - m) = 0, so that the running sum
\* is the sum of the weights of the key positions j < seq_len.
C2_PaddingKeysMasked ==
    (~causal /\ dims.S % block_size # 0) =>
        \A t \in ran.fwd : \A ri \in RowIndices(t[3]) :
            ri < dims.S =>
                LET row == FwdRow(k, v, t[1], t[2], ri)
                    w(j) == XExp(XSub(Score(k, t[1], t[2], ri, j), row.m))
                IN  /\ \A j \in Scanned : j >= dims.S => w(j) = Zero
                    /\ row.l = XSumTo([j \in 0 .. dims.S - 1 |-> w(j)], dims.S)

\* C3: once forward has returned, the tensors m and l saved for backward hold,
\* for every valid row, the final running maximum and running sum of the
\* forward program that owns the row.
C3_StatsPopulated ==
    Returned =>
        \A r \in ValidRows :
            LET row == FwdRow(k, v, r[1], r[2], r[3])
            IN  /\ heap[MBase + StatOffset(r[1], r[2], r[3])] = row.m
                /\ heap[LBase + StatOffset(r[1], r[2], r[3])] = row.l

PreprocessDone == pc \in {"dq", "dkv", "grads", "done"}

\* C4: after the preprocess launch, the element of d that the dQ and dK/dV
\* kernels read for (b, h, i) is the sum over features of Output * dOutput.
C4_DIsRowDot ==
    PreprocessDone =>
        \A r \in ValidRows :
            dbuf[StatOffset(r[1], r[2], r[3])] =
                XSumTo([f \in Features |->
                          XMul(heap[OAddr(r[1], r[2], r[3], f)],
                               dout[OAddr(r[1], r[2], r[3], f)])], dims.D)

\* the addresses of o's storage
OStorage == 0 .. Numel(dims) - 1

\* C5: no location is stored to by two programs of one launch, and the
\* forward kernel's M and L stores hit neither o's storage nor each other.
C5_WriteOnce ==
    /\ \A t1, t2 \in ran.fwd :
          t1 # t2 => FwdWrites(t1[1], t1[2], t1[3]) \cap FwdWrites(t2[1], t2[2], t2[3]) = {}
    /\ \A t1, t2 \in ran.pre :
          t1 # t2 => PreWrites(t1[1], t1[2], t1[3]) \cap PreWrites(t2[1], t2[2], t2[3]) = {}
    /\ \A t1, t2 \in ran.dq :
          t1 # t2 => DOMAIN DqStore(t1[1], t1[2], t1[3]) \cap DOMAIN DqStore(t2[1], t2[2], t2[3]) = {}
    /\ \A t1, t2 \in ran.dkv :
          t1 # t2 => DOMAIN DkvStore(t1[1], t1[2], t1[3], "dk")
                        \cap DOMAIN DkvStore(t2[1], t2[2], t2[3], "dk") = {}
    /\ \A t1, t2 \in ran.fwd :
          LET tile1 == FwdTile(k, v, t1[1], t1[2], t1[3])
              tile2 == FwdTile(k, v, t2[1], t2[2], t2[3])
              mw == DOMAIN FwdStoreM(tile1, t1[1], t1[2], t1[3])
              lw == DOMAIN FwdStoreL(tile2, t2[1], t2[2], t2[3])
          IN  mw \cap OStorage = {} /\ lw \cap OStorage = {} /\ mw \cap lw = {}

\* every element of buf that a program in done has stored holds what the
\* program's store function st(t) gives in the current state, the others zero
HoldsStores(buf, done, st(_)) ==
    /\ \A t \in done :
          LET w == st(t)
          IN  \A a \in DOMAIN w : a \in DOMAIN buf => buf[a] = w[a]
    /\ \A a \in DOMAIN buf \ UNION {DOMAIN st(t) : t \in done} : buf[a] = Zero

\* C6: no dQ or dK/dV program runs before every preprocess program has run;
\* and whatever the order in which the programs of the two launches run, each
\* gradient element holds what its own program computes from q, k, v, do, m,
\* d: no program of the other launch has changed its inputs or its result.
C6_GradsIndependent ==
    /\ (ran.dq # {} \/ ran.dkv # {}) => ran.pre = Tasks(grid)
    /\ pc \in {"grads", "done"} =>
          /\ LET st(t) == DqStore(t[1], t[2], t[3]) IN HoldsStores(dq, ran.dq, st)
          /\ LET st(t) == DkvStore(t[1], t[2], t[3], "dk") IN HoldsStores(dk, ran.dkv, st)
          /\ LET st(t) == DkvStore(t[1], t[2], t[3], "dv") IN HoldsStores(dv, ran.dkv, st)

\* the whole dK/dV launch has run before any dQ program, and dQ has started
C6_Witness ==
    /\ pc = "grads"
    /\ ran.dkv = Tasks(grid)
    /\ Cardinality(ran.dq) = 1
    /\ Cardinality(Tasks(grid)) >= 2

\* the weight the forward pass applied to Value[j] for row i: exp(score - M) / L
FwdWeight(b, h, i, j) ==
    LET row == FwdRow(k, v, b, h, i)
    IN  XDiv(XExp(XSub(Score(k, b, h, i, j), row.m)), row.l)

\* C7: for every valid row of a dQ or dK/dV program that has run, the weights
\* the program recomputed are the forward weights exp(score - M) / L, and the
\* sum over the valid keys of P[i, j] * Value[j] is the forward Output row.
C7_RecomputedWeights ==
    /\ \A t \in ran.dq : \A ri \in RowIndices(t[3]) :
          ri < dims.S =>
              /\ \A j \in 0 .. dims.S - 1 :
                    BwdP(t[1], t[2], ri, j) = FwdWeight(t[1], t[2], ri, j)
              /\ \A f \in Features :
                    XSumTo([j \in 0 .. dims.S - 1 |->
                              XMul(BwdP(t[1], t[2], ri, j), KVLoad(v, t[1], t[2], j, f))],
                           dims.S) = heap[OAddr(t[1], t[2], ri, f)]
    /\ \A t \in ran.dkv : \A cj \in RowIndices(t[3]) : \A ri \in 0 .. dims.S - 1 :
          cj < dims.S => BwdPT(t[1], t[2], cj, ri) = FwdWeight(t[1], t[2], ri, cj)

\* C8: a forward call whose k, v disagree with q in sequence length or feature
\* dimension launches nothing: no program runs, nothing is allocated or stored.
C8_MismatchRejected ==
    kvdims # dims => (pc = "init" /\ ran.fwd = {} /\ DOMAIN heap = {})

\* C9: seq_len not divisible by the tile size: for every valid key of a dK/dV
\* program that has run, the query rows >= seq_len of the partial query tile
\* add a zero term to dv and to dk, and the stored dk, dv elements are finite.
C9_PaddingRowsInert ==
    dims.S % block_size # 0 =>
        \A t \in ran.dkv : \A cj \in RowIndices(t[3]) : \A f \in Features :
            cj < dims.S =>
                /\ \A ri \in Scanned :
                      ri >= dims.S =>
                          LET p_t == BwdPT(t[1], t[2], cj, ri)
                              dp_t == XSumTo([g \in 0 .. block_k - 1 |->
                                                XMul(KVLoad(v, t[1], t[2], cj, g),
                                                     DOLoad(t[1], t[2], ri, g))], block_k)
                              ds_t == XMul(p_t, XSub(dp_t, DLoad(t[1], t[2], ri)))
                          IN  /\ XMul(p_t, DOLoad(t[1], t[2], ri, f)) = Zero
                              /\ XMul(ds_t, QLoad(t[1], t[2], ri, f)) = Zero
                /\ IsFin(dk[Offset(Stride(kvdims), t[1], t[2], cj, f)])
                /\ IsFin(dv[Offset(Stride(kvdims), t[1], t[2], cj, f)])

RECURSIVE IsPow2(_)
IsPow2(n) == n = 1 \/ (n > 1 /\ n % 2 = 0 /\ IsPow2(n \div 2))

\* the smallest power of two >= n, for n >= 1
LeastPow2Geq(n) ==
    CHOOSE p \in 1 .. 2 * n :
        IsPow2(p) /\ p >= n /\ \A r \in 1 .. p - 1 : IsPow2(r) => r < n

\* ceil(x / y) for x, y >= 1
Ceil(x, y) == CHOOSE n \in 1 .. x : n * y >= x /\ (n - 1) * y < x

Launched == pc[2] = "launched"

\* C10: the dispatcher, in forward and in backward, reaches its launch; there
\* BLOCK_SIZE_K is the smallest power of two >= head_dim and every kernel it
\* launches runs batch * heads * ceil(seq_len / tile size) programs.
C10_DispatchArithmetic ==
    /\ <>Launched
    /\ [](Launched =>
            /\ block_k = LeastPow2Geq(dims.D)
            /\ IsPow2(dims.D) => block_k = dims.D
            /\ \A kn \in Kernels :
                  (kn = "fwd") = (pc[1] = "forward") =>
                      Cardinality(ran[kn]) = dims.B * dims.H * Ceil(dims.S, block_size))

\* a head_dim that is no power of two, and a partial last tile
C10_Witness ==
    /\ Launched
    /\ block_k > dims.D
    /\ dims.S % block_size # 0
    /\ dims.S > block_size

\* addresses of the elements (b, h, i, f), i a row of tile tile_id with
\* i < seq_len and f < head_dim, in a tensor of shape sh
TileValid(sh, b, h, tile_id) ==
    {Offset(Stride(sh), b, h, i, f) :
        i \in {r \in RowIndices(tile_id) : r < dims.S}, f \in Features}

\* addresses of all elements with row < seq_len and feature < head_dim
AllValid(sh) ==
    {Offset(Stride(sh), r[1], r[2], r[3], f) : r \in ValidRows, f \in Features}

\* C11: the Output, dQuery, dKey and dValue store of every program that has
\* run writes exactly the elements of its tile with row < seq_len and feature
\* < head_dim, no lane with row >= seq_len or feature >= head_dim; and once a
\* launch has run, its stores together cover every such element of the tensor.
C11_StoresCoverExactly ==
    /\ \A t \in ran.fwd :
          DOMAIN FwdStoreO(FwdTile(k, v, t[1], t[2], t[3]), t[1], t[2], t[3])
              = TileValid(dims, t[1], t[2], t[3])
    /\ \A t \in ran.dq :
          DOMAIN DqStore(t[1], t[2], t[3]) = TileValid(dims, t[1], t[2], t[3])
    /\ \A t \in ran.dkv :
          /\ DOMAIN DkvStore(t[1], t[2], t[3], "dk") = TileValid(kvdims, t[1], t[2], t[3])
          /\ DOMAIN DkvStore(t[1], t[2], t[3], "dv") = TileValid(kvdims, t[1], t[2], t[3])
    /\ Returned =>
          UNION {DOMAIN FwdStoreO(FwdTile(k, v, t[1], t[2], t[3]), t[1], t[2], t[3]) :
                    t \in ran.fwd} = AllValid(dims)
    /\ pc \in {"dkv", "done"} =>
          UNION {DOMAIN DqStore(t[1], t[2], t[3]) : t \in ran.dq} = AllValid(dims)
    /\ pc = "done" =>
          /\ UNION {DOMAIN DkvStore(t[1], t[2], t[3], "dk") : t \in ran.dkv}
                = AllValid(kvdims)
          /\ UNION {DOMAIN DkvStore(t[1], t[2], t[3], "dv") : t \in ran.dkv}
                = AllValid(kvdims)

\* all four stores have run with a partial last tile and a head_dim that is
\* no power of two
C11_Witness ==
    /\ pc = "done"
    /\ dims.S % block_size # 0
    /\ dims.S > block_size
    /\ block_k > dims.D

\* iterations of the loop over key tiles: range(0, seq_len, BLOCK_SIZE_N)
NumTiles == CDiv(dims.S, block_size)

RECURSIVE FwdAfter(_, _, _, _)
\* m_i, l_i, acc of row ri at the end of iteration n of the loop (n = 0: before)
FwdAfter(b, h, ri, n) ==
    IF n = 0 THEN FwdInit
    ELSE FwdStep(FwdAfter(b, h, ri, n - 1), k, v, b, h, ri, (n - 1) * block_size)

IsPos(x) == IsFin(x) /\ x[1] > 0

\* C12: for every row of the query tile of a forward program that has run,
\* causal or not: some key position of the first key tile is unmasked; at the
\* end of every iteration the running maximum is finite and the running sum
\* is finite and > 0, so that from the second iteration on exp(m_old - m_new)
\* is taken of two finite values; and acc / l_i divides by a non-zero l_i and
\* is finite.
C12_RunningMaxFinite ==
    \A t \in ran.fwd : \A ri \in RowIndices(t[3]) :
        /\ \E c \in 0 .. block_size - 1 : Score(k, t[1], t[2], ri, c) # NInf
        /\ \A n \in 1 .. NumTiles :
              LET old == FwdAfter(t[1], t[2], ri, n - 1)
                  new == FwdAfter(t[1], t[2], ri, n)
              IN  /\ IsFin(new.m)
                  /\ IsPos(new.l)
                  /\ n >= 2 => IsFin(old.m) /\ IsPos(XExp(XSub(old.m, new.m)))
        /\ LET row == FwdRow(k, v, t[1], t[2], ri)
           IN  /\ row.m = FwdAfter(t[1], t[2], ri, NumTiles).m
               /\ row.l = FwdAfter(t[1], t[2], ri, NumTiles).l
               /\ row.l # Zero
               /\ \A f \in 0 .. block_k - 1 : IsFin(row.out[f])

\* a causal launch of several key tiles, the last one partial, has run
C12_Witness ==
    /\ pc = "ret"
    /\ causal
    /\ ran.fwd = Tasks(grid)
    /\ NumTiles >= 2
    /\ dims.S % block_size # 0

====
